---- MODULE Spec2Model ----
(***************************************************************************)
(* Gig-o-Download: the command-line process (startup expiry check, the     *)
(* list, download and clear-cache commands), its cached auth cookie, its   *)
(* cached gig catalog and its output files, against a remote service       *)
(* whose answers are the environment's choice.                             *)
(*                                                                         *)
(* Text is a sequence of one-character strings.  A date object is a        *)
(* record [year, month, day]; its ISO text is the ten characters           *)
(* YYYY-MM-DD.  Files survive from one invocation of the process to the    *)
(* next; everything else is rebuilt at each start.                         *)
(***************************************************************************)
EXTENDS Integers, Sequences, FiniteSets, TLC

(* ---------------------------------------------------------------------- *)
(* Bounds of the model                                                     *)
(* ---------------------------------------------------------------------- *)

\* resolution of the clock: ticks per day
UnitsPerDay == 1
\* oldest cookie age followed, in days
MaxAgeDays == 4

(* ---------------------------------------------------------------------- *)
(* Program constants                                                       *)
(* ---------------------------------------------------------------------- *)

\* the attempt count at which ensureAuthCookie gives up
MAX_TRIES == 3
\* the age, in whole days, from which the startup check removes the cookie
EXPIRY_DAYS == 3

None == "None"
\* the date arguments' None
NoDate == [year |-> 0, month |-> 0, day |-> 0]
\* the empty text, also standing for a text not yet known
NoText == << >>

(* ---------------------------------------------------------------------- *)
(* Text                                                                    *)
(* ---------------------------------------------------------------------- *)

UpperCh == {"J", "S", "P", "X"}
LowerCh == {"a", "b", "j", "s", "p", "x", "n"}
DigitCh == {"0", "1", "2", "3", "4", "5", "6", "7", "8", "9"}

\* str.lower() on one character
LowerChar(c) ==
    CASE c = "J" -> "j"
      [] c = "S" -> "s"
      [] c = "P" -> "p"
      [] c = "X" -> "x"
      [] OTHER -> c

\* str.lower()
Lower(s) == [i \in 1..Len(s) |-> LowerChar(s[i])]

\* re.sub('[^...]', '', s) : keep the characters of the class
KeepOnly(s, class) == SelectSeq(s, LAMBDA c : c \in class)

\* re.sub(r'\s+', ' ', s) : every run of blanks becomes one blank
RECURSIVE CollapseSpaces(_)
CollapseSpaces(s) ==
    IF Len(s) <= 1 THEN s
    ELSE IF s[1] = " " /\ s[2] = " " THEN CollapseSpaces(Tail(s))
    ELSE <<s[1]>> \o CollapseSpaces(Tail(s))

RECURSIVE LStrip(_)
LStrip(s) == IF s # <<>> /\ s[1] = " " THEN LStrip(Tail(s)) ELSE s

RECURSIVE RStrip(_)
RStrip(s) ==
    IF s # <<>> /\ s[Len(s)] = " " THEN RStrip(SubSeq(s, 1, Len(s) - 1)) ELSE s

\* str.strip()
Strip(s) == RStrip(LStrip(s))

Digit(n) ==
    CASE n = 0 -> "0" [] n = 1 -> "1" [] n = 2 -> "2" [] n = 3 -> "3"
      [] n = 4 -> "4" [] n = 5 -> "5" [] n = 6 -> "6" [] n = 7 -> "7"
      [] n = 8 -> "8" [] n = 9 -> "9"

DigitVal(c) == CHOOSE n \in 0..9 : Digit(n) = c

\* zero-padded decimal of n in w characters
RECURSIVE Pad(_, _)
Pad(n, w) == IF w = 0 THEN <<>> ELSE Pad(n \div 10, w - 1) \o <<Digit(n % 10)>>

RECURSIVE ParseInt(_)
ParseInt(s) ==
    IF s = <<>> THEN 0
    ELSE 10 * ParseInt(SubSeq(s, 1, Len(s) - 1)) + DigitVal(s[Len(s)])

(* ---------------------------------------------------------------------- *)
(* Dates                                                                   *)
(* ---------------------------------------------------------------------- *)

Date(y, m, d) == [year |-> y, month |-> m, day |-> d]

\* date.isoformat() and str(date)
IsoFormat(d) == Pad(d.year, 4) \o <<"-">> \o Pad(d.month, 2) \o <<"-">> \o Pad(d.day, 2)

\* date.fromisoformat()
FromIsoFormat(s) ==
    Date(ParseInt(SubSeq(s, 1, 4)), ParseInt(SubSeq(s, 6, 7)), ParseInt(SubSeq(s, 9, 10)))

\* datetime.strptime(s, '%m/%d/%y').date() : a two-digit year below 69 is
\* in the 2000s, the others in the 1900s
StrpTime(s) ==
    LET yy == ParseInt(SubSeq(s, 7, 8))
    IN  Date(IF yy < 69 THEN 2000 + yy ELSE 1900 + yy,
             ParseInt(SubSeq(s, 1, 2)), ParseInt(SubSeq(s, 4, 5)))

\* date.__le__
DateLE(a, b) ==
    \/ a.year < b.year
    \/ a.year = b.year /\ a.month < b.month
    \/ a.year = b.year /\ a.month = b.month /\ a.day <= b.day

\* date.__ge__
DateGE(a, b) == DateLE(b, a)

(* ---------------------------------------------------------------------- *)
(* Gig                                                                     *)
(* ---------------------------------------------------------------------- *)

Gig(id, name, date) == [id |-> id, name |-> name, date |-> date]

FileSafeClass == UpperCh \cup LowerCh \cup DigitCh \cup {" ", ",", ".", "-"}

\* Gig.fileSafeName
fileSafeName(gig) ==
    Strip(CollapseSpaces(IsoFormat(gig.date) \o <<" ">> \o KeepOnly(gig.name, FileSafeClass)))

\* sorted(gigs, key=lambda g: g.date) : stable insertion by date
RECURSIVE InsertByDate(_, _)
InsertByDate(sorted, g) ==
    IF sorted = <<>> THEN <<g>>
    ELSE IF DateLE(sorted[Len(sorted)].date, g.date) THEN Append(sorted, g)
    ELSE Append(InsertByDate(SubSeq(sorted, 1, Len(sorted) - 1), g), sorted[Len(sorted)])

RECURSIVE SortedByDate(_)
SortedByDate(gs) ==
    IF gs = <<>> THEN <<>>
    ELSE InsertByDate(SortedByDate(SubSeq(gs, 1, Len(gs) - 1)), gs[Len(gs)])

(* ---------------------------------------------------------------------- *)
(* The remote service (the environment)                                    *)
(* ---------------------------------------------------------------------- *)

\* the bands the user has access to: GET api/bands
Bands ==
    << [id |-> <<"5">>, shortname |-> <<"s", "p">>],
       [id |-> <<"7">>, shortname |-> <<"X", "!">>] >>

\* the rows of GET band_gig_archive?bk=<band id>, in page order
ArchivePage(band_id) ==
    IF band_id = <<"5">> THEN
        << [href |-> <<"?", "g", "k", "=", "3">>, text |-> <<" ", "J", "'", "s">>,
            date |-> <<"0", "1", "/", "0", "1", "/", "2", "4">>],
           [href |-> <<"?", "g", "k", "=", "1">>, text |-> <<"a", " ", " ", "b">>,
            date |-> <<"0", "1", "/", "0", "1", "/", "2", "3">>],
           [href |-> <<"?", "g", "k", "=", "2">>, text |-> <<"a", "&", " ">>,
            date |-> <<"0", "6", "/", "1", "5", "/", "2", "3">>] >>
    ELSE IF band_id = <<"7">> THEN
        << [href |-> <<"?", "g", "k", "=", "9">>, text |-> <<"x">>,
            date |-> <<"0", "6", "/", "1", "5", "/", "2", "3">>] >>
    ELSE << >>

\* what the user may type as band_id_or_short_name
BandArgs == { <<"5">>, <<"s", "p">>, <<"S", "P">>, <<"x", "!">>, <<"n">> }

\* what the user may type as --start-date and --end-date (NoDate: not given)
StartArgs == { NoDate, Date(2023, 1, 1), Date(2023, 6, 16) }
EndArgs == { NoDate, Date(2023, 12, 31) }

\* the days on which the process may run: date.today()
Todays == { Date(2024, 1, 1) }

Range(f) == { f[i] : i \in DOMAIN f }

BandsWithId(x) == { b \in Range(Bands) : b.id = x }
BandsWithShortName(x) == { b \in Range(Bands) : b.shortname = x }

\* the statuses the service may answer a GET with.  api/band/<x> finds a
\* band by its id, may or may not find it by its exact short name, and is
\* 404 for anything else; every request may be refused (401) or fail (500).
Statuses(what, x) ==
    {401, 500} \cup
    (IF what = "band"
       THEN (IF BandsWithId(x) # {} THEN {200}
             ELSE IF BandsWithShortName(x) # {} THEN {200, 404}
             ELSE {404})
       ELSE {200, 404})

\* response.text : the body is a str whatever document it carries
ResponseText(doc) == [kind |-> "str", doc |-> doc]

\* json.loads
JsonLoads(text) == [kind |-> "json", doc |-> text.doc]

\* v[key] with a str key is a TypeError on a str
Subscriptable(v) == v.kind # "str"

\* the band object served for api/band/<x>
BandObject(x) ==
    CHOOSE b \in Range(Bands) : b.id = x \/ (BandsWithId(x) = {} /\ b.shortname = x)

(* ---------------------------------------------------------------------- *)
(* State                                                                   *)
(* ---------------------------------------------------------------------- *)

VARIABLES
    pc,          \* where the process is
    outcome,     \* how the process ended
    cmd, bandArg, startDate, endArg, endDate, today,   \* parsed arguments
    startToken,  \* what the startup check found: "absent", "kept", "stale"
    tokenExists, \* AUTH_COOKIE_FILE.exists()
    tokenAge,    \* now - creation time of AUTH_COOKIE_FILE, in clock ticks
    tries,       \* ensureAuthCookie's local
    posts,       \* login POSTs issued by the current ensureAuthCookie call
    prompts,     \* credential prompts of the current ensureAuthCookie call
    gets,        \* GETs issued by the current fetch call
    entryToken,  \* whether the cookie was cached when fetch was called
    fetchFor,    \* the call site of the current fetch
    lastStatus,  \* response.status_code of the last GET
    gigsFile,    \* cache/gigs.json : [exists, band_id, gigs]
    cacheEvent,  \* what get_gigs met: "none", "hit", "miss", "rebuilt"
    bandId, bandShort,   \* the result of get_band_info
    catalog,     \* the result of get_gigs
    gigs,        \* download's filtered list
    idx,         \* position of the for loop in gigs
    downloaded,  \* download's local
    lastRet,     \* the last return of download_gig_pdf / download_gig_json
    browser,     \* the driver session: "none", "open", "closed"
    sessions,    \* driver sessions opened by this process
    tempFile,    \* whether the NamedTemporaryFile exists
    outFiles,    \* the output tree: path -> content
    progress,    \* the fileSafeNames printed by the loop, in order
    returnedTrue \* the paths for which an export call has returned True

argVars == <<cmd, bandArg, startDate, endArg, endDate, today, startToken>>
authVars == <<tokenExists, tokenAge>>
fetchVars == <<tries, posts, prompts, gets, entryToken, fetchFor, lastStatus>>
catVars == <<gigsFile, cacheEvent>>
dlVars == <<bandId, bandShort, catalog, gigs, idx, downloaded, lastRet>>
resVars == <<browser, sessions, tempFile>>
outVars == <<outFiles, progress, returnedTrue>>

vars == <<pc, outcome, argVars, authVars, fetchVars, catVars, dlVars, resVars, outVars>>

MaxAge == MaxAgeDays * UnitsPerDay

EmptyFiles == [p \in {} |-> NoText]
NoGigsFile == [exists |-> FALSE, band_id |-> NoText, gigs |-> << >>]
NoRet == [fn |-> "none", path |-> NoText, val |-> FALSE]

Init ==
    /\ pc = "start"
    /\ outcome = None
    /\ cmd = None /\ bandArg = NoText /\ startDate = NoDate /\ endArg = NoDate
    /\ endDate = NoDate /\ today = NoDate /\ startToken = None
    /\ tokenExists = FALSE /\ tokenAge = 0
    /\ tries = 0 /\ posts = 0 /\ prompts = 0 /\ gets = 0
    /\ entryToken = FALSE /\ fetchFor = None /\ lastStatus = 0
    /\ gigsFile = NoGigsFile
    /\ cacheEvent = "none"
    /\ bandId = NoText /\ bandShort = NoText /\ catalog = <<>> /\ gigs = <<>>
    /\ idx = 0 /\ downloaded = FALSE /\ lastRet = NoRet
    /\ browser = "none" /\ sessions = 0 /\ tempFile = FALSE
    /\ outFiles = EmptyFiles
    /\ progress = <<>>
    /\ returnedTrue = {}

(* ---------------------------------------------------------------------- *)
(* Helpers of the client                                                   *)
(* ---------------------------------------------------------------------- *)

\* a startup check that keeps a cookie of exactly three days
ExpiredAfter(age) == (age \div UnitsPerDay) > EXPIRY_DAYS

\* (datetime.now() - create_datetime).days >= 3
Expired(age) == (age \div UnitsPerDay) >= EXPIRY_DAYS

\* a match statement that gives up one attempt later
TriesCaseLate(t) ==
    IF t = 0 THEN "first" ELSE IF t = MAX_TRIES + 1 THEN "fatal" ELSE "again"

\* the arm of ensureAuthCookie's match statement
TriesCase(t) ==
    IF t = 0 THEN "first" ELSE IF t = MAX_TRIES THEN "fatal" ELSE "again"

\* a fetch that leaves the cookie file in place on a 401
AfterStatusKept(status, exists) == exists

\* fetch: a 401 unlinks the cookie file
AfterStatus(status, exists) == IF status = 401 THEN FALSE ELSE exists

\* response.raise_for_status()
RaisesForStatus(status) == status >= 400

\* get_band_info: the statuses of the direct request that fall through to
\* the listing
FallsBack(status) == status \in {404}

\* a get_band_info that compares the short names as they are
MatchedBandsExact(bands, x) == SelectSeq(bands, LAMBDA b : b.shortname = x)

\* get_band_info: filter(lambda b: b['shortname'].lower() == x.lower(), bands)
MatchedBands(bands, x) == SelectSeq(bands, LAMBDA b : Lower(b.shortname) = Lower(x))

OutDirClass == UpperCh \cup LowerCh \cup DigitCh \cup {"_", "-"}

\* a get_gigs that takes any cached file for the band's
CacheStaleNever(file, band_id) == FALSE

\* get_gigs: gigs_json['band_id'] != band_id
CacheStale(file, band_id) == file.band_id # band_id

\* an export that never sees its target file
ExistsNever(path, fs) == FALSE

\* Path.exists() in the output tree
Exists(path, fs) == path \in DOMAIN fs

\* get_out_dir
get_out_dir(band_short_name) == KeepOnly(band_short_name, OutDirClass)

\* re.search(r'(?<=gk=).*$', href)[0] : what follows the first gk=
RECURSIVE AfterGk(_)
AfterGk(href) ==
    IF Len(href) < 3 THEN NoText
    ELSE IF SubSeq(href, 1, 3) = <<"g", "k", "=">> THEN SubSeq(href, 4, Len(href))
    ELSE AfterGk(Tail(href))

\* get_gigs.getGig
getGig(row) == Gig(AfterGk(row.href), Strip(row.text), StrpTime(Strip(row.date)))

\* get_gigs: the fresh list, sorted((getGig(r) for r in rows), key=date)
BuildGigs(rows) == SortedByDate([i \in 1..Len(rows) |-> getGig(rows[i])])

\* get_gigs: the document written to gigs.json
GigsJson(band_id, gs) ==
    [exists |-> TRUE, band_id |-> band_id,
     gigs |-> [i \in 1..Len(gs) |->
                 [id |-> gs[i].id, name |-> gs[i].name, date |-> IsoFormat(gs[i].date)]]]

\* get_gigs: the list read back from gigs.json
ReadGigs(file) ==
    SortedByDate([i \in 1..Len(file.gigs) |->
        Gig(file.gigs[i].id, file.gigs[i].name, FromIsoFormat(file.gigs[i].date))])

\* a download that forgets the end date
FilterGigsNoEnd(gs, start_date, end_date) ==
    IF start_date # NoDate
      THEN SelectSeq(gs, LAMBDA g : DateGE(g.date, start_date)) ELSE gs

\* a download whose start date is exclusive
FilterGigsAfterStart(gs, start_date, end_date) ==
    LET afterStart ==
            IF start_date # NoDate
              THEN SelectSeq(gs, LAMBDA g : ~DateLE(g.date, start_date)) ELSE gs
    IN  IF end_date # NoDate
          THEN SelectSeq(afterStart, LAMBDA g : DateLE(g.date, end_date)) ELSE afterStart

\* download: the two filters
FilterGigs(gs, start_date, end_date) ==
    LET afterStart ==
            IF start_date # NoDate
              THEN SelectSeq(gs, LAMBDA g : DateGE(g.date, start_date)) ELSE gs
    IN  IF end_date # NoDate
          THEN SelectSeq(afterStart, LAMBDA g : DateLE(g.date, end_date)) ELSE afterStart

PdfPath(gig, out_dir) == out_dir \o <<"/">> \o fileSafeName(gig) \o <<".pdf">>
JsonPath(gig, out_dir) == out_dir \o <<"/">> \o fileSafeName(gig) \o <<".json">>

\* Path.write_bytes / Path.write_text
WriteFile(fs, path, content) ==
    [q \in DOMAIN fs \cup {path} |-> IF q = path THEN content ELSE fs[q]]

\* browser.print_page() of gig_info.html?gk=<id>, decoded
PdfOf(id) == <<"pdf">> \o id
\* json.dumps(json.loads(text), indent=2) of api/gig/<id>
JsonOf(id) == <<"json">> \o id

\* a download that leaves the driver session behind
ExitBrowserLeak(b) == b

\* WebDriver.__exit__ : leaving the with block quits the session
ExitBrowser(b) == IF b = "open" THEN "closed" ELSE b

\* NamedTemporaryFile.__exit__ : leaving the with block deletes the file
ExitTemp(t) == FALSE

(* ---------------------------------------------------------------------- *)
(* Shared steps                                                            *)
(* ---------------------------------------------------------------------- *)

\* a call of fetch: it starts with a call of ensureAuthCookie (tries = 0)
CallFetch(what) ==
    /\ pc' = "ensure"
    /\ fetchFor' = what
    /\ tries' = 0 /\ posts' = 0 /\ prompts' = 0 /\ gets' = 0
    /\ entryToken' = tokenExists
    /\ lastStatus' = 0

\* the process ends: exit() and uncaught exceptions unwind the with blocks
Terminate(how) ==
    /\ pc' = "done"
    /\ outcome' = how
    /\ browser' = ExitBrowser(browser)
    /\ tempFile' = ExitTemp(tempFile)
    /\ sessions' = sessions

\* the exit status of the process
ExitStatus == IF outcome = "ok" THEN 0 ELSE 1

(* ---------------------------------------------------------------------- *)
(* Process start: __init__.py                                              *)
(* ---------------------------------------------------------------------- *)

\* the expiry check, then the argument parser
Startup ==
    /\ pc = "start"
    /\ \E t \in Todays, c \in {"list", "download", "clear-cache"} :
         /\ today' = t
         /\ cmd' = c
         /\ IF c = "download"
              THEN \E x \in BandArgs, s \in StartArgs, e \in EndArgs :
                     /\ bandArg' = x
                     /\ startDate' = s
                     /\ endArg' = e
                     /\ endDate' = IF e = NoDate THEN t ELSE e
              ELSE /\ bandArg' = NoText /\ startDate' = NoDate
                   /\ endArg' = NoDate /\ endDate' = NoDate
    /\ startToken' = IF ~tokenExists THEN "absent"
                     ELSE IF Expired(tokenAge) THEN "stale" ELSE "kept"
    /\ tokenExists' = (tokenExists /\ ~Expired(tokenAge))
    /\ tokenAge' = IF tokenExists' THEN tokenAge ELSE 0
    /\ pc' = "main"
    /\ UNCHANGED <<outcome, fetchVars, catVars, dlVars, resVars, outVars>>

\* time passes while a cookie file exists
Tick ==
    /\ tokenExists
    /\ tokenAge < MaxAge
    /\ tokenAge' = tokenAge + 1
    /\ UNCHANGED <<pc, outcome, argVars, tokenExists, fetchVars, catVars, dlVars,
                   resVars, outVars>>

\* case 'list': download.list_bands()
CmdList ==
    /\ pc = "main" /\ cmd = "list"
    /\ CallFetch("list")
    /\ UNCHANGED <<outcome, argVars, authVars, catVars, dlVars, resVars, outVars>>

\* list_bands after its fetch: print_bands
ListBandsPrint ==
    /\ pc = "returned" /\ fetchFor = "list"
    /\ Terminate("ok")
    /\ UNCHANGED <<argVars, authVars, fetchVars, catVars, dlVars, outVars>>

\* case 'clear-cache': shutil.rmtree(CACHE_PATH)
CmdClearCache ==
    /\ pc = "main" /\ cmd = "clear-cache"
    /\ tokenExists' = FALSE /\ tokenAge' = 0
    /\ gigsFile' = NoGigsFile
    /\ Terminate("ok")
    /\ UNCHANGED <<argVars, fetchVars, cacheEvent, dlVars, outVars>>

\* case 'download': download() calls get_band_info, which calls fetch
CmdDownload ==
    /\ pc = "main" /\ cmd = "download"
    /\ CallFetch("band")
    /\ UNCHANGED <<outcome, argVars, authVars, catVars, dlVars, resVars, outVars>>

(* ---------------------------------------------------------------------- *)
(* ensureAuthCookie and fetch                                              *)
(* ---------------------------------------------------------------------- *)

\* the while condition is false: ensureAuthCookie returns
EnsureReturn ==
    /\ pc = "ensure"
    /\ tokenExists
    /\ pc' = "get"
    /\ UNCHANGED <<outcome, argVars, authVars, fetchVars, catVars, dlVars,
                   resVars, outVars>>

\* one turn of the loop: prompt, POST /login, keep the cookie if there is one
LoginAttempt ==
    /\ pc = "ensure"
    /\ ~tokenExists
    /\ TriesCase(tries) # "fatal"
    /\ \E cookie \in BOOLEAN :
         /\ tokenExists' = cookie
         /\ tokenAge' = 0
    /\ prompts' = prompts + 1
    /\ posts' = posts + 1
    /\ tries' = tries + 1
    /\ UNCHANGED <<pc, outcome, argVars, gets, entryToken, fetchFor, lastStatus,
                   catVars, dlVars, resVars, outVars>>

\* case 3: exit(1)
LoginFatal ==
    /\ pc = "ensure"
    /\ ~tokenExists
    /\ TriesCase(tries) = "fatal"
    /\ Terminate("LoginFatal")
    /\ UNCHANGED <<argVars, authVars, fetchVars, catVars, dlVars, outVars>>

\* requests.get, the 401 unlink and raise_for_status
HttpGet ==
    /\ pc = "get"
    /\ \E status \in Statuses(fetchFor, bandArg) :
         /\ lastStatus' = status
         /\ tokenExists' = AfterStatus(status, tokenExists)
         /\ pc' = IF RaisesForStatus(status) THEN "raised" ELSE "returned"
    /\ tokenAge' = IF tokenExists' THEN tokenAge ELSE 0
    /\ gets' = gets + 1
    /\ UNCHANGED <<outcome, argVars, tries, posts, prompts, entryToken, fetchFor,
                   catVars, dlVars, resVars, outVars>>

\* an HTTPError nobody catches ends the process
Uncaught ==
    /\ pc = "raised"
    /\ ~(fetchFor = "band" /\ FallsBack(lastStatus))
    /\ Terminate("HTTPError")
    /\ UNCHANGED <<argVars, authVars, fetchVars, catVars, dlVars, outVars>>

(* ---------------------------------------------------------------------- *)
(* get_band_info                                                           *)
(* ---------------------------------------------------------------------- *)

\* the direct request succeeded: band = fetch(...); band['id'], band['shortname']
GetBandInfoDirect ==
    /\ pc = "returned" /\ fetchFor = "band"
    /\ LET band == ResponseText(BandObject(bandArg))
       IN  IF Subscriptable(band)
             THEN /\ bandId' = band.doc.id
                  /\ bandShort' = band.doc.shortname
                  /\ pc' = "get_gigs"
                  /\ UNCHANGED <<outcome, resVars>>
             ELSE /\ Terminate("TypeError")
                  /\ UNCHANGED <<bandId, bandShort>>
    /\ UNCHANGED <<argVars, authVars, fetchVars, catVars, catalog, gigs, idx,
                   downloaded, lastRet, outVars>>

\* the direct request raised 404: fetch the listing
GetBandInfoFallback ==
    /\ pc = "raised" /\ fetchFor = "band"
    /\ FallsBack(lastStatus)
    /\ CallFetch("bands")
    /\ UNCHANGED <<outcome, argVars, authVars, catVars, dlVars, resVars, outVars>>

\* the listing arrived: match on the short name, or print and exit(1)
GetBandInfoMatch ==
    /\ pc = "returned" /\ fetchFor = "bands"
    /\ LET bands == JsonLoads(ResponseText(Bands)).doc
           matched_bands == MatchedBands(bands, bandArg)
       IN  IF Len(matched_bands) = 0
             THEN /\ Terminate("NoBand")
                  /\ UNCHANGED <<bandId, bandShort>>
             ELSE /\ bandId' = matched_bands[1].id
                  /\ bandShort' = matched_bands[1].shortname
                  /\ pc' = "get_gigs"
                  /\ UNCHANGED <<outcome, resVars>>
    /\ UNCHANGED <<argVars, authVars, fetchVars, catVars, catalog, gigs, idx,
                   downloaded, lastRet, outVars>>

(* ---------------------------------------------------------------------- *)
(* get_gigs                                                                *)
(* ---------------------------------------------------------------------- *)

\* gigs.json exists: a file of another band is unlinked and get_gigs calls
\* itself; a file of this band is read, sorted and returned
GetGigsCached ==
    /\ pc = "get_gigs"
    /\ gigsFile.exists
    /\ IF CacheStale(gigsFile, bandId)
         THEN /\ gigsFile' = NoGigsFile
              /\ cacheEvent' = "rebuilt"
              /\ UNCHANGED <<pc, catalog>>
         ELSE /\ catalog' = ReadGigs(gigsFile)
              /\ cacheEvent' = "hit"
              /\ pc' = "filter"
              /\ UNCHANGED gigsFile
    /\ UNCHANGED <<outcome, argVars, authVars, fetchVars, bandId, bandShort, gigs,
                   idx, downloaded, lastRet, resVars, outVars>>

\* gigs.json does not exist: fetch the archive page
GetGigsFetch ==
    /\ pc = "get_gigs"
    /\ ~gigsFile.exists
    /\ cacheEvent' = IF cacheEvent = "rebuilt" THEN "rebuilt" ELSE "miss"
    /\ CallFetch("archive")
    /\ UNCHANGED <<outcome, argVars, authVars, gigsFile, dlVars, resVars, outVars>>

\* the archive page arrived: scrape, sort, write gigs.json, return
GetGigsBuild ==
    /\ pc = "returned" /\ fetchFor = "archive"
    /\ LET built == BuildGigs(ArchivePage(bandId))
       IN  /\ gigsFile' = GigsJson(bandId, built)
           /\ catalog' = built
    /\ pc' = "filter"
    /\ UNCHANGED <<outcome, argVars, authVars, fetchVars, cacheEvent, bandId,
                   bandShort, gigs, idx, downloaded, lastRet, resVars, outVars>>

(* ---------------------------------------------------------------------- *)
(* download                                                                *)
(* ---------------------------------------------------------------------- *)

\* the date filters, the empty check, get_out_dir and the with statement
\* that opens the driver session
Filter ==
    /\ pc = "filter"
    /\ LET selected == FilterGigs(catalog, startDate, endDate)
       IN  /\ gigs' = selected
           /\ IF Len(selected) = 0
                THEN /\ Terminate("NoGigs")
                     /\ idx' = idx
                ELSE \E started \in BOOLEAN :
                       IF started
                         THEN /\ browser' = "open"
                              /\ sessions' = sessions + 1
                              /\ idx' = 1
                              /\ pc' = "loop"
                              /\ UNCHANGED <<outcome, tempFile>>
                         ELSE /\ Terminate("WebDriverException")
                              /\ idx' = idx
    /\ UNCHANGED <<argVars, authVars, fetchVars, catVars, bandId, bandShort,
                   catalog, downloaded, lastRet, outVars>>

\* the for statement takes the next gig and prints its fileSafeName
LoopNext ==
    /\ pc = "loop"
    /\ idx <= Len(gigs)
    /\ progress' = Append(progress, fileSafeName(gigs[idx]))
    /\ pc' = "pdf"
    /\ UNCHANGED <<outcome, argVars, authVars, fetchVars, catVars, dlVars, resVars,
                   outFiles, returnedTrue>>

\* the for statement is exhausted: the with block ends, download returns
LoopEnd ==
    /\ pc = "loop"
    /\ idx > Len(gigs)
    /\ Terminate("ok")
    /\ UNCHANGED <<argVars, authVars, fetchVars, catVars, dlVars, outVars>>

\* download_gig_pdf: the file exists, return False
DownloadGigPdfSkip ==
    /\ pc = "pdf"
    /\ LET path == PdfPath(gigs[idx], get_out_dir(bandShort))
       IN  /\ Exists(path, outFiles)
           /\ lastRet' = [fn |-> "pdf", path |-> path, val |-> FALSE]
    /\ downloaded' = FALSE
    /\ pc' = "json"
    /\ UNCHANGED <<outcome, argVars, authVars, fetchVars, catVars, bandId, bandShort,
                   catalog, gigs, idx, resVars, outVars>>

\* download_gig_pdf: the file is missing, open the temporary file and fetch
DownloadGigPdfFetch ==
    /\ pc = "pdf"
    /\ ~Exists(PdfPath(gigs[idx], get_out_dir(bandShort)), outFiles)
    /\ tempFile' = TRUE
    /\ CallFetch("pdf")
    /\ UNCHANGED <<outcome, argVars, authVars, catVars, dlVars, browser, sessions,
                   outVars>>

\* download_gig_pdf after its fetch: t.write, browser.get, print_page,
\* write_bytes, the with block ends, return True; the driver may raise
DownloadGigPdfRender ==
    /\ pc = "returned" /\ fetchFor = "pdf"
    /\ \E rendered \in BOOLEAN :
         IF rendered
           THEN LET path == PdfPath(gigs[idx], get_out_dir(bandShort))
                IN  /\ outFiles' = WriteFile(outFiles, path, PdfOf(gigs[idx].id))
                    /\ returnedTrue' = returnedTrue \cup {path}
                    /\ lastRet' = [fn |-> "pdf", path |-> path, val |-> TRUE]
                    /\ downloaded' = TRUE
                    /\ tempFile' = ExitTemp(tempFile)
                    /\ pc' = "json"
                    /\ UNCHANGED <<outcome, browser, sessions>>
           ELSE /\ Terminate("WebDriverException")
                /\ UNCHANGED <<outFiles, returnedTrue, lastRet, downloaded>>
    /\ UNCHANGED <<argVars, authVars, fetchVars, catVars, bandId, bandShort, catalog,
                   gigs, idx, progress>>

\* download_gig_json: the file exists, return False; the loop body ends
DownloadGigJsonSkip ==
    /\ pc = "json"
    /\ LET path == JsonPath(gigs[idx], get_out_dir(bandShort))
       IN  /\ Exists(path, outFiles)
           /\ lastRet' = [fn |-> "json", path |-> path, val |-> FALSE]
    /\ downloaded' = (downloaded \/ FALSE)
    /\ idx' = idx + 1
    /\ pc' = "loop"
    /\ UNCHANGED <<outcome, argVars, authVars, fetchVars, catVars, bandId, bandShort,
                   catalog, gigs, resVars, outVars>>

\* a download_gig_json that opens its target for writing before it fetches
DownloadGigJsonFetchOpened ==
    /\ pc = "json"
    /\ ~Exists(JsonPath(gigs[idx], get_out_dir(bandShort)), outFiles)
    /\ outFiles' = WriteFile(outFiles, JsonPath(gigs[idx], get_out_dir(bandShort)), NoText)
    /\ CallFetch("json")
    /\ UNCHANGED <<outcome, argVars, authVars, catVars, dlVars, resVars, progress,
                   returnedTrue>>

\* download_gig_json: the file is missing, fetch
DownloadGigJsonFetch ==
    /\ pc = "json"
    /\ ~Exists(JsonPath(gigs[idx], get_out_dir(bandShort)), outFiles)
    /\ CallFetch("json")
    /\ UNCHANGED <<outcome, argVars, authVars, catVars, dlVars, resVars, outVars>>

\* download_gig_json after its fetch: write_text, return True; the loop
\* body ends
DownloadGigJsonWrite ==
    /\ pc = "returned" /\ fetchFor = "json"
    /\ LET path == JsonPath(gigs[idx], get_out_dir(bandShort))
       IN  /\ outFiles' = WriteFile(outFiles, path, JsonOf(gigs[idx].id))
           /\ returnedTrue' = returnedTrue \cup {path}
           /\ lastRet' = [fn |-> "json", path |-> path, val |-> TRUE]
    /\ downloaded' = (downloaded \/ TRUE)
    /\ idx' = idx + 1
    /\ pc' = "loop"
    /\ UNCHANGED <<outcome, argVars, authVars, fetchVars, catVars, bandId, bandShort,
                   catalog, gigs, resVars, progress>>

(* ---------------------------------------------------------------------- *)
(* The next invocation                                                     *)
(* ---------------------------------------------------------------------- *)

\* the process is gone; the files stay for the next one
Restart ==
    /\ pc = "done"
    /\ pc' = "start"
    /\ outcome' = None
    /\ cmd' = None /\ bandArg' = NoText /\ startDate' = NoDate /\ endArg' = NoDate
    /\ endDate' = NoDate /\ today' = NoDate /\ startToken' = None
    /\ tries' = 0 /\ posts' = 0 /\ prompts' = 0 /\ gets' = 0
    /\ entryToken' = FALSE /\ fetchFor' = None /\ lastStatus' = 0
    /\ cacheEvent' = "none"
    /\ bandId' = NoText /\ bandShort' = NoText /\ catalog' = <<>> /\ gigs' = <<>>
    /\ idx' = 0 /\ downloaded' = FALSE /\ lastRet' = NoRet
    /\ browser' = "none" /\ sessions' = 0 /\ tempFile' = FALSE
    /\ progress' = <<>>
    /\ UNCHANGED <<authVars, gigsFile, outFiles, returnedTrue>>

Next ==
    \/ Startup
    \/ Tick
    \/ CmdList
    \/ ListBandsPrint
    \/ CmdClearCache
    \/ CmdDownload
    \/ EnsureReturn
    \/ LoginAttempt
    \/ LoginFatal
    \/ HttpGet
    \/ Uncaught
    \/ GetBandInfoDirect
    \/ GetBandInfoFallback
    \/ GetBandInfoMatch
    \/ GetGigsCached
    \/ GetGigsFetch
    \/ GetGigsBuild
    \/ Filter
    \/ LoopNext
    \/ LoopEnd
    \/ DownloadGigPdfSkip
    \/ DownloadGigPdfFetch
    \/ DownloadGigPdfRender
    \/ DownloadGigJsonSkip
    \/ DownloadGigJsonFetch
    \/ DownloadGigJsonWrite
    \/ Restart

Spec == Init /\ [][Next]_vars

(* ---------------------------------------------------------------------- *)
(* C1 : ensureAuthCookie                                                   *)
(* ---------------------------------------------------------------------- *)

\* C1: a call of ensureAuthCookie issues at most 3 login POSTs; once the
\* cookie file is there it neither prompts nor POSTs again and returns, and
\* on return the cookie file is present; called with the cookie cached it
\* returns with no prompt and no POST; after 3 failed attempts the process
\* exits with a non-zero status, having issued exactly 3 POSTs.
C1_LoginBounded ==
    /\ [](posts <= 3)
    /\ [](pc = "get" => tokenExists)
    /\ [](pc = "get" /\ entryToken => posts = 0 /\ prompts = 0)
    /\ [](outcome = "LoginFatal" => pc = "done" /\ posts = 3 /\ ExitStatus # 0)
    /\ [][pc = "ensure" /\ tokenExists
            => posts' = posts /\ prompts' = prompts /\ pc' \in {"ensure", "get"}]_vars
    /\ [][pc = "ensure" /\ ~tokenExists /\ posts = 3
            => posts' = posts /\ pc' = "done" /\ outcome' = "LoginFatal"]_vars

\* the third attempt brought the cookie, and ensureAuthCookie returned
C1_ThirdAttemptSucceeds ==
    pc = "get" /\ ~entryToken /\ posts = 3 /\ prompts = 3 /\ tokenExists

(* ---------------------------------------------------------------------- *)
(* C2 : fetch and the 401                                                  *)
(* ---------------------------------------------------------------------- *)

\* C2: a GET answered 401 leaves the cookie file deleted when the error is
\* raised, the request was issued once only and the process issues no
\* further request; a call of fetch that finds no cookie file starts by
\* prompting for credentials.
C2_UnauthorizedInvalidates ==
    /\ [][pc = "get" /\ lastStatus' = 401
            => ~tokenExists' /\ pc' = "raised" /\ gets' = gets + 1]_vars
    /\ [](lastStatus = 401 => ~tokenExists /\ gets = 1 /\ pc \in {"raised", "done"})
    /\ [][pc = "ensure" /\ ~tokenExists /\ tries = 0 => prompts' = prompts + 1]_vars

\* a cached cookie was refused and the error is on its way to the caller
C2_CachedCookieRefused ==
    pc = "raised" /\ lastStatus = 401 /\ entryToken /\ ~tokenExists

(* ---------------------------------------------------------------------- *)
(* C3 : get_gigs and the band id of the cache                              *)
(* ---------------------------------------------------------------------- *)

\* the gig ids of the archive listing of a band
ArchiveIds(band_id) == { AfterGk(r.href) : r \in Range(ArchivePage(band_id)) }

\* C3: get_gigs never returns from a cache file of another band: such a
\* file is deleted and the archive listing of the requested band fetched;
\* whenever get_gigs has returned, the cache file exists, carries the
\* requested band id and holds the returned gigs, which are that band's.
C3_CacheBandMatches ==
    /\ [](pc = "filter"
            => /\ gigsFile.exists
               /\ gigsFile.band_id = bandId
               /\ ReadGigs(gigsFile) = catalog
               /\ { g.id : g \in Range(catalog) } = ArchiveIds(bandId))
    /\ [](pc = "filter" /\ cacheEvent = "rebuilt"
            => fetchFor = "archive" /\ gets = 1
               /\ catalog = BuildGigs(ArchivePage(bandId)))
    /\ [][pc = "get_gigs" /\ gigsFile.exists /\ gigsFile.band_id # bandId /\ pc' # pc
            => pc' = "get_gigs" /\ ~gigsFile'.exists]_vars
    /\ [][pc = "get_gigs" /\ gigsFile.exists /\ gigsFile.band_id # bandId
            => pc' # "filter"]_vars
    /\ [][pc = "get_gigs" /\ ~gigsFile.exists /\ pc' # pc
            => pc' = "ensure" /\ fetchFor' = "archive"]_vars

\* get_gigs returned after it had met the cache file of another band
C3_RebuiltAfterMismatch ==
    pc = "filter" /\ cacheEvent = "rebuilt" /\ gigsFile.band_id = bandId

(* ---------------------------------------------------------------------- *)
(* C4 : an export that returned True is skipped ever after                 *)
(* ---------------------------------------------------------------------- *)

\* the step starts no fetch, no login and no render
NoWork ==
    /\ pc' # "ensure"
    /\ UNCHANGED <<gets, posts, prompts, tempFile, authVars>>

\* C4: once download_gig_pdf or download_gig_json has returned True for a
\* path, the file at that path stays as it is, and every later call for
\* that path returns False without a fetch, a login prompt or a render.
C4_ReturnedTrueThenSkipped ==
    /\ [](\A p \in returnedTrue : p \in DOMAIN outFiles)
    /\ [][\A p \in returnedTrue : p \in DOMAIN outFiles' /\ outFiles'[p] = outFiles[p]]_vars
    /\ [][pc = "pdf" /\ PdfPath(gigs[idx], get_out_dir(bandShort)) \in returnedTrue /\ pc' # pc
            => /\ pc' = "json"
               /\ lastRet' = [fn |-> "pdf", val |-> FALSE,
                              path |-> PdfPath(gigs[idx], get_out_dir(bandShort))]
               /\ NoWork]_vars
    /\ [][pc = "json" /\ JsonPath(gigs[idx], get_out_dir(bandShort)) \in returnedTrue /\ pc' # pc
            => /\ pc' = "loop"
               /\ lastRet' = [fn |-> "json", val |-> FALSE,
                              path |-> JsonPath(gigs[idx], get_out_dir(bandShort))]
               /\ NoWork]_vars

\* a later process skipped both files of a gig exported by an earlier one
C4_SkippedLater ==
    /\ pc = "loop" /\ idx = 2
    /\ ~downloaded
    /\ lastRet.fn = "json" /\ ~lastRet.val /\ lastRet.path \in returnedTrue
    /\ gets = 1 /\ fetchFor = "bands"

(* ---------------------------------------------------------------------- *)
(* C5, C6 : the date range                                                 *)
(* ---------------------------------------------------------------------- *)

\* a date as the number YYYYMMDD
DateNum(d) == d.year * 10000 + d.month * 100 + d.day

\* the catalog gigs inside the range of the command line
InRange(g) ==
    /\ (startDate # NoDate => DateNum(startDate) <= DateNum(g.date))
    /\ DateNum(g.date) <= (IF endArg = NoDate THEN DateNum(today) ELSE DateNum(endArg))

Selected == { g \in Range(catalog) : InRange(g) }

\* download has filtered the catalog
Filtered == cmd = "download" /\ (gigs # << >> \/ outcome = "NoGigs")

\* C5: the gigs download exports are exactly the catalog gigs g with
\* start <= g.date <= end, both inclusive, no lower limit without a start
\* date and today as the end without --end-date; they are taken one after
\* another in ascending date order, and a run that completes has exported
\* every one of them.
C5_ExportsDateRange ==
    Filtered =>
        /\ Range(gigs) = Selected
        /\ Len(gigs) = Cardinality(Selected)
        /\ \A i, j \in 1..Len(gigs) : i < j => DateNum(gigs[i].date) <= DateNum(gigs[j].date)
        /\ Len(progress) <= Len(gigs)
        /\ \A i \in 1..Len(progress) : progress[i] = fileSafeName(gigs[i])
        /\ (pc \in {"loop", "pdf", "json"}
              => idx = Len(progress) + (IF pc = "loop" THEN 1 ELSE 0))
        /\ (outcome = "ok"
              => /\ Len(progress) = Len(gigs)
                 /\ \A i \in 1..Len(gigs) :
                      /\ PdfPath(gigs[i], get_out_dir(bandShort)) \in DOMAIN outFiles
                      /\ JsonPath(gigs[i], get_out_dir(bandShort)) \in DOMAIN outFiles)

\* a run without --end-date, started on the day of the last gig, with the
\* start date on the day of the first gig, exported all three
C5_BothBoundsInclusive ==
    /\ outcome = "ok" /\ cmd = "download"
    /\ startDate = Date(2023, 1, 1) /\ endArg = NoDate /\ today = Date(2024, 1, 1)
    /\ Len(progress) = 3

\* the catalog and the range of the example
C6_Example ==
    /\ Filtered
    /\ [i \in 1..Len(catalog) |-> catalog[i].date]
         = << Date(2023, 1, 1), Date(2023, 6, 15), Date(2024, 1, 1) >>
    /\ startDate = Date(2023, 1, 1)
    /\ endDate = Date(2023, 12, 31)

\* C6 as stated: with gigs dated 2023-01-01, 2023-06-15 and 2024-01-01, the
\* range 2023-01-01 .. 2023-12-31 selects exactly the 2023-06-15 gig.
C6_SelectsOnlyJune ==
    C6_Example => [i \in 1..Len(gigs) |-> gigs[i].date] = << Date(2023, 6, 15) >>

\* C6 amended: with gigs dated 2023-01-01, 2023-06-15 and 2024-01-01, the
\* range 2023-01-01 .. 2023-12-31 selects exactly the 2023-01-01 and the
\* 2023-06-15 gigs, the start date being inclusive.
C6_SelectsJanuaryAndJune ==
    C6_Example =>
        [i \in 1..Len(gigs) |-> gigs[i].date] = << Date(2023, 1, 1), Date(2023, 6, 15) >>

\* the example's download has selected its gigs and is exporting them
C6_ExampleFiltered == C6_Example /\ pc = "loop" /\ idx = 1

(* ---------------------------------------------------------------------- *)
(* C7, C8 : get_band_info                                                  *)
(* ---------------------------------------------------------------------- *)

\* C7: when the direct request api/band/<x> succeeds, get_band_info
\* returns the id and the shortname of the object in the response, and the
\* list of all bands is not fetched.
C7_DirectSuccessReturns ==
    [][pc = "returned" /\ fetchFor = "band" /\ pc' # pc
         => /\ pc' = "get_gigs"
            /\ bandId' = BandObject(bandArg).id
            /\ bandShort' = BandObject(bandArg).shortname
            /\ fetchFor' = "band"]_vars

CasePairs == { <<"J", "j">>, <<"S", "s">>, <<"P", "p">>, <<"X", "x">> }

\* two texts that differ in letter case at most
EqIgnoreCase(a, b) ==
    /\ Len(a) = Len(b)
    /\ \A i \in 1..Len(a) :
         a[i] = b[i] \/ <<a[i], b[i]>> \in CasePairs \/ <<b[i], a[i]>> \in CasePairs

AccessibleMatches == { b \in Range(Bands) : EqIgnoreCase(b.shortname, bandArg) }

\* C8: after a 404 of the direct request get_band_info fetches the band
\* list and returns the id and shortname of an accessible band whose
\* shortname equals x ignoring case, or exits with a non-zero status when
\* there is none; any other error status of the direct request ends
\* get_band_info with that HTTP error and without a request for the list.
C8_FallbackOn404Only ==
    /\ [][pc = "raised" /\ fetchFor = "band" /\ pc' # pc
            => IF lastStatus = 404
                 THEN pc' = "ensure" /\ fetchFor' = "bands" /\ outcome' = None
                 ELSE /\ pc' = "done" /\ outcome' = "HTTPError"
                      /\ fetchFor' = "band" /\ lastStatus' = lastStatus
                      /\ gets' = gets]_vars
    /\ [][pc = "returned" /\ fetchFor = "bands" /\ pc' # pc
            => IF AccessibleMatches # {}
                 THEN /\ pc' = "get_gigs"
                      /\ \E b \in AccessibleMatches :
                           bandId' = b.id /\ bandShort' = b.shortname
                 ELSE pc' = "done" /\ outcome' = "NoBand"]_vars
    /\ [](outcome = "NoBand"
            => ExitStatus # 0 /\ AccessibleMatches = {} /\ fetchFor = "bands")

\* the short name typed in capitals was resolved through the listing
C8_ResolvedIgnoringCase ==
    /\ pc = "get_gigs" /\ fetchFor = "bands"
    /\ bandArg = <<"S", "P">>
    /\ bandId = <<"5">> /\ bandShort = <<"s", "p">>

(* ---------------------------------------------------------------------- *)
(* C9 : the startup expiry check                                           *)
(* ---------------------------------------------------------------------- *)

\* C9 as stated: at process start a cached cookie is deleted if and only
\* if its creation time is more than 3 days in the past.
C9_DeletedIffOlderThanThreeDays ==
    [][pc = "start" /\ pc' = "main" /\ tokenExists
         => (~tokenExists' <=> tokenAge > 3 * UnitsPerDay)]_vars

\* C9 amended: at process start, before any request, a cached cookie is
\* deleted if and only if its creation time is 3 days or more in the past;
\* a younger one is kept unchanged; after startup the cookie is removed
\* only by a 401 or by clear-cache, whatever its age.
C9_DeletedIffThreeDaysOrOlder ==
    /\ [][pc = "start" /\ pc' = "main" /\ tokenExists
            => /\ ~tokenExists' <=> tokenAge >= 3 * UnitsPerDay
               /\ tokenExists' => tokenAge' = tokenAge]_vars
    /\ [][pc = "start" /\ pc' = "main" /\ ~tokenExists => ~tokenExists']_vars
    /\ [](pc = "main" => gets = 0 /\ posts = 0 /\ prompts = 0)
    /\ [][pc # "start" /\ tokenExists /\ ~tokenExists'
            => lastStatus' = 401 \/ cmd = "clear-cache"]_vars

\* the startup check has just removed a cookie
C9_StaleCookieRemoved ==
    pc = "main" /\ startToken = "stale" /\ ~tokenExists

(* ---------------------------------------------------------------------- *)
(* C10 : the scoped resources                                              *)
(* ---------------------------------------------------------------------- *)

\* C10: when the process has ended, however it ended, a driver session
\* that was opened is closed and no temporary HTML file is left; a process
\* opens at most one driver session, and the temporary file exists only
\* while download_gig_pdf is between its fetch and its return.
C10_ResourcesReleased ==
    /\ sessions <= 1
    /\ (sessions = 0 <=> browser = "none")
    /\ (pc = "done" => browser # "open" /\ ~tempFile)
    /\ (tempFile => fetchFor = "pdf" /\ browser = "open"
                    /\ pc \in {"ensure", "get", "returned", "raised"})

\* a render failed in the middle of the batch and the process has ended
C10_EndedOnRenderError ==
    /\ pc = "done" /\ outcome = "WebDriverException"
    /\ fetchFor = "pdf" /\ lastStatus = 200
    /\ browser = "closed" /\ sessions = 1

(* ---------------------------------------------------------------------- *)
(* C11 : an output file is the mark of a completed export                  *)
(* ---------------------------------------------------------------------- *)

\* an export call is inside its fetch, or the process ended there
InExport == fetchFor \in {"pdf", "json"} /\ pc \in {"ensure", "get", "returned", "raised", "done"}

\* the target path of that export call
Target ==
    IF fetchFor = "pdf" THEN PdfPath(gigs[idx], get_out_dir(bandShort))
    ELSE JsonPath(gigs[idx], get_out_dir(bandShort))

\* what a completed export of that call leaves at its target
TargetContent == IF fetchFor = "pdf" THEN PdfOf(gigs[idx].id) ELSE JsonOf(gigs[idx].id)

\* C11: a file appears in the output tree only in the step in which an
\* export call, its GET answered 200 (and, for the PDF, the page rendered),
\* writes its own target and returns True; while an export call is in its
\* login or fetch, and after it failed in the login, the fetch or the
\* render, there is no file at its target, and a call that finds no file
\* at its target is not skipped.
C11_FileOnlyAfterCompletedExport ==
    /\ [][\A p \in DOMAIN outFiles' :
            p \notin DOMAIN outFiles
               => /\ pc = "returned" /\ lastStatus = 200 /\ InExport
                  /\ p = Target
                  /\ outFiles'[p] = TargetContent
                  /\ outcome' = None
                  /\ lastRet' = [fn |-> fetchFor, path |-> p, val |-> TRUE]]_vars
    /\ [](InExport /\ (pc = "done" => outcome # "ok") => Target \notin DOMAIN outFiles)
    /\ [][pc = "pdf" /\ PdfPath(gigs[idx], get_out_dir(bandShort)) \notin DOMAIN outFiles
             /\ pc' # pc
            => pc' = "ensure" /\ fetchFor' = "pdf"]_vars
    /\ [][pc = "json" /\ JsonPath(gigs[idx], get_out_dir(bandShort)) \notin DOMAIN outFiles
             /\ pc' # pc
            => pc' = "ensure" /\ fetchFor' = "json"]_vars

\* the JSON export of a gig failed in its fetch after the PDF export of
\* the same gig had completed: the PDF is there, the JSON is not
C11_JsonFetchFailed ==
    /\ pc = "done" /\ outcome = "HTTPError" /\ fetchFor = "json"
    /\ PdfPath(gigs[idx], get_out_dir(bandShort)) \in DOMAIN outFiles
    /\ JsonPath(gigs[idx], get_out_dir(bandShort)) \notin DOMAIN outFiles

====
